---- MODULE Spec2Model ----
(***************************************************************************)
(* Enrollment saga of the learning platform: the Enrollment entity, the    *)
(* enrollment repository and EnrollmentSagaOrchestrator (Execute and       *)
(* CancelEnrollment), with the store, the payment client and the event     *)
(* publisher as environments whose calls may fail.                         *)
(*                                                                         *)
(* Every store operation and every remote call is one atomic step; the     *)
(* straight-line code between two calls belongs to the step of the call    *)
(* that precedes it.  Spec runs the calls one after another (no two calls  *)
(* of the orchestrator overlap); ConcSpec interleaves their steps;         *)
(* FairSpec is Spec with every call in progress going on to its return.    *)
(*                                                                         *)
(* Further parts, each with a specification of its own: CtxSpec (the ctx   *)
(* of a call may be cancelled), ValidateSpec (Enrollment.Validate),        *)
(* ConsumerSpec and ConsumerFairSpec (the Kafka consumer loop), CourseSpec *)
(* (the course service and its repositories) and UserSpec (Register of    *)
(* the user service).                                                      *)
(***************************************************************************)
EXTENDS Integers, Sequences, FiniteSets, TLC

\* Number of calls of the orchestrator (Execute and CancelEnrollment together)
\* in a behaviour: when the calls run one after another, and when their steps
\* interleave.
MaxCalls == 3
MaxConcCalls == 2
\* The same number in the behaviours checked for termination.
MaxFairCalls == 2
\* And in the behaviours where the caller may cancel the ctx of a call.
MaxCtxCalls == 2
\* The messages of the partition the consumer reads.
MaxMessages == 3
\* Courses created in the course service.
MaxCourses == 2
\* Register calls of the user service.
MaxRegs == 2

Runs == 1..MaxCalls
Cancels == 1..MaxCalls

----------------------------------------------------------------------------
(* domain/enrollment.go *)

StatusPending == "PENDING"
StatusActive == "ACTIVE"
StatusCompleted == "COMPLETED"
StatusCancelled == "CANCELLED"
StatusRefunded == "REFUNDED"

EnrollmentStatus ==
    {StatusPending, StatusActive, StatusCompleted, StatusCancelled, StatusRefunded}

\* An error is the chain of messages fmt.Errorf("...: %w", err) builds; nil is <<>>.
Nil == <<>>
ErrEnrollmentNotFound == <<"enrollment not found">>
ErrInvalidInput == <<"invalid input">>
ErrAlreadyEnrolled == <<"already enrolled">>
Wrap(msg, err) == <<msg>> \o err

\* The zero time.Time / SQL NULL of completed_at.
NoTime == 0

\* Validate accepting only a progress below 100.
Validate_ProgressBelow100(e) ==
    IF e.UserID = "" THEN ErrInvalidInput
    ELSE IF e.CourseID = "" THEN ErrInvalidInput
    ELSE IF e.AmountPaid < 0 THEN ErrInvalidInput
    ELSE IF e.ProgressPercentage < 0 \/ e.ProgressPercentage >= 100 THEN ErrInvalidInput
    ELSE Nil

\* Validate without the check of the amount.
Validate_NoAmountCheck(e) ==
    IF e.UserID = "" THEN ErrInvalidInput
    ELSE IF e.CourseID = "" THEN ErrInvalidInput
    ELSE IF e.ProgressPercentage < 0 \/ e.ProgressPercentage > 100 THEN ErrInvalidInput
    ELSE Nil

Validate(e) ==
    IF e.UserID = "" THEN ErrInvalidInput
    ELSE IF e.CourseID = "" THEN ErrInvalidInput
    ELSE IF e.AmountPaid < 0 THEN ErrInvalidInput
    ELSE IF e.ProgressPercentage < 0 \/ e.ProgressPercentage > 100 THEN ErrInvalidInput
    ELSE Nil

\* CanBeCancelled refusing only CANCELLED and REFUNDED.
CanBeCancelled_UnlessCancelled(e) == e.Status # StatusCancelled /\ e.Status # StatusRefunded

CanBeCancelled(e) == e.Status = StatusActive \/ e.Status = StatusPending

----------------------------------------------------------------------------
(* Inputs and environment answers *)

UserIDs == {"", "u1"}
CourseIDs == {"", "c1"}
Amounts == {0 - 1, 50}
PaymentTokens == {"tok"}

EnrollmentRequest ==
    [UserID : UserIDs, CourseID : CourseIDs, Amount : Amounts, PaymentToken : PaymentTokens]

\* uuid.New().String() of the r-th Execute call: fresh, never empty.
NewUUID(r) == "enr_" \o ToString(r)
\* An id no Execute call generated.
UnknownID == "enr_x"

\* What the payment client answers: a transport error, or a response whose
\* status is COMPLETED or another value of the enumeration.
PaymentStatus_COMPLETED == "COMPLETED"
PaymentAnswers == {"rpc error", "FAILED", PaymentStatus_COMPLETED}
\* The id the payment service gives its n-th captured payment: never empty.
PaymentIdOf(n) == "pay_" \o ToString(n)

\* No enrollment (a nil *domain.Enrollment).
NoEnrollment == [ID |-> ""]

----------------------------------------------------------------------------
VARIABLES
    store,      \* the enrollments table: id -> row
    payments,   \* the payment service: payment id -> [run, refunded]
    now,        \* time.Now(), a logical clock
    exec,       \* the Execute calls: run -> [pc, req, enrollment, paymentID, err, calls, ret]
    cancel,     \* the CancelEnrollment calls: call -> [pc, id, enrollment, err, calls, ret]
    validation, \* one call of Enrollment.Validate: [pc, e, receiver, err]
    consumer,   \* one call of Consumer.Start and its reader:
                \* [pc, ctxDone, next, msg, results, committed, closes]
    courses,    \* the courses table: id -> row
    modules,    \* the modules table: id -> row
    lessons,    \* the lessons table: id -> row
    lastOp,     \* the last call of the course service that returned
    users,      \* the users table: [emailUnique, rows]
    reg         \* the Register calls: call -> [pc, email, userID, ret]

\* The variables of each part, and those outside it.
sagaVars == <<store, payments, now, exec, cancel>>
courseVars == <<courses, modules, lessons, lastOp>>
userVars == <<users, reg>>
nonSaga == <<validation, consumer, courseVars, userVars>>
nonValidation == <<sagaVars, consumer, courseVars, userVars>>
nonConsumer == <<sagaVars, validation, courseVars, userVars>>
nonCourse == <<sagaVars, validation, consumer, userVars>>
nonUser == <<sagaVars, validation, consumer, courseVars>>

vars == <<store, payments, now, exec, cancel, validation, consumer,
          courses, modules, lessons, lastOp, users, reg>>

\* A call made on a collaborator, as a mock of it would record it: the
\* operation, its argument and what the collaborator answered (an error or nil
\* for the store and the publisher, a PaymentAnswers value for the payment client).
Call(op, arg, ans) == [op |-> op, arg |-> arg, ans |-> ans]

----------------------------------------------------------------------------
(* repository: enrollmentRepository *)

\* INSERT INTO enrollments (...): completed_at is left NULL.
\* Create over a table with a uniqueness constraint on (user_id, course_id).
Create_UniqueUserCourse(st, e, dbOk) ==
    IF ~dbOk \/ e.ID \in DOMAIN st
    THEN [store |-> st, err |-> Wrap("failed to create enrollment", <<"db">>)]
    ELSE IF \E id \in DOMAIN st :
                st[id].UserID = e.UserID /\ st[id].CourseID = e.CourseID
    THEN [store |-> st, err |-> Wrap("failed to create enrollment", ErrAlreadyEnrolled)]
    ELSE [store |-> [id \in DOMAIN st \cup {e.ID} |->
                        IF id = e.ID THEN [e EXCEPT !.CompletedAt = NoTime] ELSE st[id]],
          err |-> Nil]

Create(st, e, dbOk) ==
    IF dbOk /\ e.ID \notin DOMAIN st
    THEN [store |-> [id \in DOMAIN st \cup {e.ID} |->
                        IF id = e.ID THEN [e EXCEPT !.CompletedAt = NoTime] ELSE st[id]],
          err |-> Nil]
    ELSE [store |-> st, err |-> Wrap("failed to create enrollment", <<"db">>)]

GetByID(st, id, dbOk) ==
    IF ~dbOk THEN [enrollment |-> NoEnrollment, err |-> Wrap("failed to get enrollment", <<"db">>)]
    ELSE IF id \notin DOMAIN st THEN [enrollment |-> NoEnrollment, err |-> ErrEnrollmentNotFound]
    ELSE [enrollment |-> st[id], err |-> Nil]

\* Update binding amount_paid and progress_percentage in each other's place.
Update_SwappedArgs(st, e, dbOk) ==
    IF ~dbOk THEN [store |-> st, err |-> Wrap("failed to update enrollment", <<"db">>)]
    ELSE IF e.ID \notin DOMAIN st THEN [store |-> st, err |-> ErrEnrollmentNotFound]
    ELSE [store |-> [st EXCEPT ![e.ID] =
                        [@ EXCEPT !.Status = e.Status,
                                  !.PaymentID = e.PaymentID,
                                  !.CompletedAt = e.CompletedAt,
                                  !.ProgressPercentage = e.AmountPaid,
                                  !.AmountPaid = e.ProgressPercentage]],
          err |-> Nil]

\* Update without the payment_id column.
Update_NoPaymentID(st, e, dbOk) ==
    IF ~dbOk THEN [store |-> st, err |-> Wrap("failed to update enrollment", <<"db">>)]
    ELSE IF e.ID \notin DOMAIN st THEN [store |-> st, err |-> ErrEnrollmentNotFound]
    ELSE [store |-> [st EXCEPT ![e.ID] =
                        [@ EXCEPT !.Status = e.Status,
                                  !.CompletedAt = e.CompletedAt,
                                  !.ProgressPercentage = e.ProgressPercentage,
                                  !.AmountPaid = e.AmountPaid]],
          err |-> Nil]

\* UPDATE enrollments SET status, payment_id, completed_at, progress_percentage,
\* amount_paid WHERE id: the other columns keep their values.
Update(st, e, dbOk) ==
    IF ~dbOk THEN [store |-> st, err |-> Wrap("failed to update enrollment", <<"db">>)]
    ELSE IF e.ID \notin DOMAIN st THEN [store |-> st, err |-> ErrEnrollmentNotFound]
    ELSE [store |-> [st EXCEPT ![e.ID] =
                        [@ EXCEPT !.Status = e.Status,
                                  !.PaymentID = e.PaymentID,
                                  !.CompletedAt = e.CompletedAt,
                                  !.ProgressPercentage = e.ProgressPercentage,
                                  !.AmountPaid = e.AmountPaid]],
          err |-> Nil]

----------------------------------------------------------------------------
(* saga: calls on the payment service *)

\* processPayment without the check of the response's status.
processPayment_NoStatusCheck(answer, pid) ==
    IF answer = "rpc error"
    THEN [paymentID |-> "", err |-> Wrap("payment service error", <<"rpc">>)]
    ELSE [paymentID |-> pid, err |-> Nil]

\* processPayment: the payment id and the error, from the client's answer;
\* pid is the id the service gave the payment when it captured it.
processPayment(answer, pid) ==
    IF answer = "rpc error"
    THEN [paymentID |-> "", err |-> Wrap("payment service error", <<"rpc">>)]
    ELSE IF answer # PaymentStatus_COMPLETED
    THEN [paymentID |-> "", err |-> <<"payment processing failed with status", answer>>]
    ELSE [paymentID |-> pid, err |-> Nil]

\* refundPayment: the error, from the client's answer.  With a response whose
\* status is not COMPLETED, fmt.Errorf wraps a nil error: the result is not nil.
refundPayment(answer) ==
    IF answer = "rpc error" THEN Wrap("payment service error", <<"rpc">>)
    ELSE IF answer # PaymentStatus_COMPLETED
    THEN <<"refund processing failed with status">>
    ELSE Nil

\* The payment service after a charge it answered with `answer`.
Charged(ps, r, answer) ==
    IF answer = PaymentStatus_COMPLETED
    THEN LET pid == PaymentIdOf(Cardinality(DOMAIN ps) + 1)
         IN  [id \in DOMAIN ps \cup {pid} |->
                 IF id = pid THEN [run |-> r, refunded |-> 0] ELSE ps[id]]
    ELSE ps

\* The payment service after a refund of pid it answered with `answer`.
Refunded(ps, pid, answer) ==
    IF answer = PaymentStatus_COMPLETED /\ pid \in DOMAIN ps
    THEN [ps EXCEPT ![pid].refunded = @ + 1]
    ELSE ps

----------------------------------------------------------------------------
IdleExec == [pc |-> "idle", req |-> NoEnrollment, enrollment |-> NoEnrollment,
             paymentID |-> "", err |-> Nil, calls |-> <<>>,
             ret |-> [enrollment |-> NoEnrollment, err |-> Nil],
             cancelledAt |-> ""]

IdleCancel == [pc |-> "idle", id |-> "", enrollment |-> NoEnrollment,
               err |-> Nil, calls |-> <<>>, ret |-> Nil]

\* No call of Validate outside the saga.
NoValidation == [pc |-> "none"]

\* No consumer.
NoConsumer == [pc |-> "none"]

\* The course service before its first call: empty tables.
NoOp == [op |-> "none"]
CourseInit ==
    /\ courses = <<>>
    /\ modules = <<>>
    /\ lessons = <<>>
    /\ lastOp = NoOp

\* The user service before its first call: an empty users table, no call.
NoUsers == [emailUnique |-> FALSE, rows |-> {}]
UserInit ==
    /\ users = NoUsers
    /\ reg = <<>>

\* The saga before its first call.
SagaInit ==
    /\ store = <<>>
    /\ payments = <<>>
    /\ now = 1
    /\ exec = [r \in Runs |-> IdleExec]
    /\ cancel = [c \in Cancels |-> IdleCancel]

Init ==
    /\ SagaInit
    /\ validation = NoValidation
    /\ consumer = NoConsumer
    /\ CourseInit
    /\ UserInit

\* The calls begun so far.
Started ==
    Cardinality({r \in Runs : exec[r].pc # "idle"})
        + Cardinality({c \in Cancels : cancel[c].pc # "idle"})

\* The ids a caller may ask about: those Execute generated, and one it did not.
RequestedIDs == {exec[r].enrollment.ID : r \in {q \in Runs : exec[q].pc # "idle"}} \cup {UnknownID}

\* No call of the orchestrator is in progress.
Quiescent ==
    /\ \A r \in Runs : exec[r].pc \in {"idle", "done"}
    /\ \A c \in Cancels : cancel[c].pc \in {"idle", "done"}

\* The ctx of Execute call x is cancelled (cancelledAt is the step the call
\* had reached then).  Every store operation, remote call and publish takes
\* the ctx, and fails once it is cancelled.
CtxDone(x) == x.cancelledAt # ""
CtxAllows(x, ok) == CtxDone(x) => ~ok
CtxAllowsAnswer(x, answer) == CtxDone(x) => answer = "rpc error"

\* Execute returns (enrollment, err).
Return(x, e, err) == [x EXCEPT !.pc = "done", !.ret = [enrollment |-> e, err |-> err]]

----------------------------------------------------------------------------
(* EnrollmentSagaOrchestrator.Execute *)

\* AfterCreate with the error of Create ignored.
AfterCreate_IgnoringError(y, err) == [y EXCEPT !.pc = "pay"]

\* After Create: return its error, or go on to the charge.
AfterCreate(y, err) ==
    IF err # Nil THEN Return(y, NoEnrollment, err) ELSE [y EXCEPT !.pc = "pay"]

\* AfterPayment charging a second time after a failed charge.
AfterPayment_RetryingOnError(y, res) ==
    IF res.err # Nil
    THEN IF Cardinality({i \in 1..Len(y.calls) : y.calls[i].op = "ProcessPayment"}) < 2
         THEN y
         ELSE [y EXCEPT !.pc = "cancelled",
                        !.err = res.err,
                        !.enrollment.Status = StatusCancelled]
    ELSE [y EXCEPT !.pc = "activate",
                   !.paymentID = res.paymentID,
                   !.enrollment.PaymentID = res.paymentID,
                   !.enrollment.Status = StatusActive]

\* AfterPayment taking the compensation path after a failed charge.
AfterPayment_Compensating(y, res) ==
    IF res.err # Nil
    THEN [y EXCEPT !.pc = "refund", !.err = res.err]
    ELSE [y EXCEPT !.pc = "activate",
                   !.paymentID = res.paymentID,
                   !.enrollment.PaymentID = res.paymentID,
                   !.enrollment.Status = StatusActive]

\* AfterPayment with the status left PENDING after a failed charge.
AfterPayment_NotCancelled(y, res) ==
    IF res.err # Nil
    THEN [y EXCEPT !.pc = "cancelled", !.err = res.err]
    ELSE [y EXCEPT !.pc = "activate",
                   !.paymentID = res.paymentID,
                   !.enrollment.PaymentID = res.paymentID,
                   !.enrollment.Status = StatusActive]

\* After processPayment: on an error the enrollment becomes CANCELLED, otherwise
\* it takes the payment id and becomes ACTIVE (both still to be written).
AfterPayment(y, res) ==
    IF res.err # Nil
    THEN [y EXCEPT !.pc = "cancelled",
                   !.err = res.err,
                   !.enrollment.Status = StatusCancelled]
    ELSE [y EXCEPT !.pc = "activate",
                   !.paymentID = res.paymentID,
                   !.enrollment.PaymentID = res.paymentID,
                   !.enrollment.Status = StatusActive]

\* AfterActivate returning at once when the ctx is cancelled.
AfterActivate_ReturningOnCancel(y, err) ==
    IF err # Nil
    THEN IF y.cancelledAt # ""
         THEN [y EXCEPT !.pc = "done",
                        !.ret = [enrollment |-> [ID |-> ""],
                                 err |-> <<"failed to activate enrollment">> \o err]]
         ELSE [y EXCEPT !.pc = "refund", !.err = err]
    ELSE [y EXCEPT !.pc = "publish"]

\* AfterActivate with the error of the activation Update ignored.
AfterActivate_IgnoringError(y, err) == [y EXCEPT !.pc = "publish"]

\* AfterActivate without the compensating refund.
AfterActivate_NoRefund(y, err) ==
    IF err # Nil
    THEN [y EXCEPT !.pc = "refunded", !.err = err, !.enrollment.Status = StatusRefunded]
    ELSE [y EXCEPT !.pc = "publish"]

\* After the activation Update: on an error go on to the refund, otherwise to
\* the publish.
AfterActivate(y, err) ==
    IF err # Nil THEN [y EXCEPT !.pc = "refund", !.err = err] ELSE [y EXCEPT !.pc = "publish"]

\* Step 1: build the PENDING enrollment, validate it and create it.
ExecuteCreate(r, req, dbOk) ==
    /\ exec[r].pc = "idle"
    /\ \A q \in Runs : q < r => exec[q].pc # "idle"
    /\ LET enrollment == [ID |-> NewUUID(r),
                          UserID |-> req.UserID,
                          CourseID |-> req.CourseID,
                          Status |-> StatusPending,
                          AmountPaid |-> req.Amount,
                          PaymentID |-> "",
                          EnrolledAt |-> now,
                          CompletedAt |-> NoTime,
                          ProgressPercentage |-> 0]
           x == [exec[r] EXCEPT !.req = req, !.enrollment = enrollment]
       IN  IF Validate(enrollment) # Nil
           THEN /\ exec' = [exec EXCEPT ![r] = Return(x, NoEnrollment, Validate(enrollment))]
                /\ store' = store
           ELSE LET res == Create(store, enrollment, dbOk)
                    y == [x EXCEPT !.calls = Append(@, Call("Create", enrollment, res.err))]
                IN  /\ store' = res.store
                    /\ exec' = [exec EXCEPT ![r] = AfterCreate(y, res.err)]
    /\ now' = now + 1
    /\ UNCHANGED <<payments, cancel, nonSaga>>

\* Step 2: charge.
ExecutePayment(r, answer) ==
    /\ exec[r].pc = "pay"
    /\ CtxAllowsAnswer(exec[r], answer)
    /\ LET x == exec[r]
           pid == PaymentIdOf(Cardinality(DOMAIN payments) + 1)
           res == processPayment(answer, pid)
           y == [x EXCEPT !.calls = Append(@, Call("ProcessPayment", x.req, answer))]
       IN  /\ payments' = Charged(payments, r, answer)
           /\ exec' = [exec EXCEPT ![r] = AfterPayment(y, res)]
    /\ UNCHANGED <<store, now, cancel, nonSaga>>

\* After a failed charge: write CANCELLED, ignoring the result, and return the
\* payment error.
ExecutePaymentFailed(r, dbOk) ==
    /\ exec[r].pc = "cancelled"
    /\ CtxAllows(exec[r], dbOk)
    /\ LET x == exec[r]
           res == Update(store, x.enrollment, dbOk)
           y == [x EXCEPT !.calls = Append(@, Call("Update", x.enrollment, res.err))]
       IN  /\ store' = res.store
           /\ exec' = [exec EXCEPT ![r] =
                          Return(y, NoEnrollment, Wrap("payment failed", x.err))]
    /\ UNCHANGED <<payments, now, cancel, nonSaga>>

\* Step 3: write the payment id and ACTIVE.
ExecuteActivate(r, dbOk) ==
    /\ exec[r].pc = "activate"
    /\ CtxAllows(exec[r], dbOk)
    /\ LET x == exec[r]
           res == Update(store, x.enrollment, dbOk)
           y == [x EXCEPT !.calls = Append(@, Call("Update", x.enrollment, res.err))]
       IN  /\ store' = res.store
           /\ exec' = [exec EXCEPT ![r] = AfterActivate(y, res.err)]
    /\ UNCHANGED <<payments, now, cancel, nonSaga>>

\* The activation write failed: refund, ignoring the result; the enrollment
\* becomes REFUNDED (still to be written).
ExecuteRefund(r, answer) ==
    /\ exec[r].pc = "refund"
    /\ CtxAllowsAnswer(exec[r], answer)
    /\ LET x == exec[r]
       IN  /\ payments' = Refunded(payments, x.paymentID, answer)
           /\ exec' = [exec EXCEPT ![r] =
                          [x EXCEPT !.pc = "refunded",
                                    !.calls = Append(@, Call("RefundPayment", x.paymentID, answer)),
                                    !.enrollment.Status = StatusRefunded]]
    /\ UNCHANGED <<store, now, cancel, nonSaga>>

\* Write REFUNDED, ignoring the result, and return the activation error.
ExecuteRefunded(r, dbOk) ==
    /\ exec[r].pc = "refunded"
    /\ CtxAllows(exec[r], dbOk)
    /\ LET x == exec[r]
           res == Update(store, x.enrollment, dbOk)
           y == [x EXCEPT !.calls = Append(@, Call("Update", x.enrollment, res.err))]
       IN  /\ store' = res.store
           /\ exec' = [exec EXCEPT ![r] =
                          Return(y, NoEnrollment, Wrap("failed to activate enrollment", x.err))]
    /\ UNCHANGED <<payments, now, cancel, nonSaga>>

\* AfterPublish returning the error of the publish.
AfterPublish_ReturningError(y, err) ==
    IF err # Nil
    THEN Return(y, NoEnrollment, Wrap("failed to publish enrollment event", err))
    ELSE Return(y, y.enrollment, Nil)

\* After PublishMessage: its error is logged as a warning; the enrollment is
\* returned without error.
AfterPublish(y, err) == Return(y, y.enrollment, Nil)

\* Step 4: publish the event, ignoring the result, and return the enrollment.
ExecutePublish(r, pubOk) ==
    /\ exec[r].pc = "publish"
    /\ CtxAllows(exec[r], pubOk)
    /\ LET x == exec[r]
           event == [EnrollmentID |-> x.enrollment.ID,
                     UserID |-> x.enrollment.UserID,
                     CourseID |-> x.enrollment.CourseID,
                     Status |-> x.enrollment.Status,
                     Amount |-> x.enrollment.AmountPaid]
           err == IF pubOk THEN Nil ELSE Wrap("failed to publish message ", <<"kafka">>)
           y == [x EXCEPT !.calls = Append(@, Call("PublishMessage", event, err))]
       IN  exec' = [exec EXCEPT ![r] = AfterPublish(y, err)]
    /\ UNCHANGED <<store, payments, now, cancel, nonSaga>>

\* The caller cancels the ctx of an Execute call in progress.
ContextCancelled(r) ==
    /\ exec[r].pc \notin {"idle", "done"}
    /\ ~CtxDone(exec[r])
    /\ exec' = [exec EXCEPT ![r].cancelledAt = exec[r].pc]
    /\ UNCHANGED <<store, payments, now, cancel, nonSaga>>

----------------------------------------------------------------------------
(* EnrollmentSagaOrchestrator.CancelEnrollment *)

\* Load the enrollment and decide: return the load error, refuse a status
\* that cannot be cancelled, refund when a payment id is present, and write
\* CANCELLED otherwise.
\* CancelDecide without the assignment of CANCELLED before the Update.
CancelDecide_StatusNotSet(x, res) ==
    IF res.err # Nil
    THEN [x EXCEPT !.pc = "done", !.ret = res.err]
    ELSE IF ~CanBeCancelled(res.enrollment)
    THEN [x EXCEPT !.pc = "done",
                   !.ret = <<"enrollment cannot be cancelled in status", res.enrollment.Status>>]
    ELSE IF res.enrollment.PaymentID # ""
    THEN [x EXCEPT !.pc = "refund"]
    ELSE [x EXCEPT !.pc = "update"]

\* Lines 291-307: return the load error, refuse a status that cannot be
\* cancelled, refund when a payment id is present, write CANCELLED otherwise.
CancelDecide(x, res) ==
    IF res.err # Nil
    THEN [x EXCEPT !.pc = "done", !.ret = res.err]
    ELSE IF ~CanBeCancelled(res.enrollment)
    THEN [x EXCEPT !.pc = "done",
                   !.ret = <<"enrollment cannot be cancelled in status", res.enrollment.Status>>]
    ELSE IF res.enrollment.PaymentID # ""
    THEN [x EXCEPT !.pc = "refund"]
    ELSE [x EXCEPT !.pc = "update", !.enrollment.Status = StatusCancelled]

CancelLoad(c, id, dbOk) ==
    /\ cancel[c].pc = "idle"
    /\ \A d \in Cancels : d < c => cancel[d].pc # "idle"
    /\ LET res == GetByID(store, id, dbOk)
           x == [cancel[c] EXCEPT !.id = id,
                                  !.enrollment = res.enrollment,
                                  !.err = res.err,
                                  !.calls = Append(@, Call("GetByID", id, res.err))]
       IN  cancel' = [cancel EXCEPT ![c] = CancelDecide(x, res)]
    /\ UNCHANGED <<store, payments, now, exec, nonSaga>>

\* What CancelEnrollment returns after the refund.  The refund's error is
\* declared by the inner if statement and is logged there; the return statement
\* after it names the err of GetByID, which is nil at this point.
CancelRefundResult(x, refundErr) == x.err

\* The payment id is present: refund and return.
CancelRefund(c, answer) ==
    /\ cancel[c].pc = "refund"
    /\ LET x == cancel[c]
           err == refundPayment(answer)
       IN  /\ payments' = Refunded(payments, x.enrollment.PaymentID, answer)
           /\ cancel' = [cancel EXCEPT ![c] =
                  [x EXCEPT !.pc = "done",
                            !.calls = Append(@, Call("RefundPayment", x.enrollment.PaymentID, answer)),
                            !.ret = CancelRefundResult(x, err)]]
    /\ UNCHANGED <<store, now, exec, nonSaga>>

\* No payment id: write CANCELLED and return the result of the write.
CancelUpdate(c, dbOk) ==
    /\ cancel[c].pc = "update"
    /\ LET x == cancel[c]
           res == Update(store, x.enrollment, dbOk)
       IN  /\ store' = res.store
           /\ cancel' = [cancel EXCEPT ![c] =
                  [x EXCEPT !.pc = "done",
                            !.calls = Append(@, Call("Update", x.enrollment, res.err)),
                            !.ret = res.err]]
    /\ UNCHANGED <<payments, now, exec, nonSaga>>

----------------------------------------------------------------------------
(* Outside the orchestrator *)

\* The progress-tracking flow completes an ACTIVE enrollment.
MarkCompleted(id) ==
    /\ id \in DOMAIN store
    /\ store[id].Status = StatusActive
    /\ store' = [store EXCEPT ![id].Status = StatusCompleted,
                              ![id].ProgressPercentage = 100,
                              ![id].CompletedAt = now]
    /\ now' = now + 1
    /\ UNCHANGED <<payments, exec, cancel, nonSaga>>

----------------------------------------------------------------------------
\* The steps that continue a call in progress.
Continue ==
    \/ \E r \in Runs, answer \in PaymentAnswers : ExecutePayment(r, answer)
    \/ \E r \in Runs, dbOk \in BOOLEAN : ExecutePaymentFailed(r, dbOk)
    \/ \E r \in Runs, dbOk \in BOOLEAN : ExecuteActivate(r, dbOk)
    \/ \E r \in Runs, answer \in PaymentAnswers : ExecuteRefund(r, answer)
    \/ \E r \in Runs, dbOk \in BOOLEAN : ExecuteRefunded(r, dbOk)
    \/ \E r \in Runs, pubOk \in BOOLEAN : ExecutePublish(r, pubOk)
    \/ \E c \in Cancels, answer \in PaymentAnswers : CancelRefund(c, answer)
    \/ \E c \in Cancels, dbOk \in BOOLEAN : CancelUpdate(c, dbOk)

\* The steps that begin a call of the orchestrator.
Begin ==
    \/ \E r \in Runs, req \in EnrollmentRequest, dbOk \in BOOLEAN : ExecuteCreate(r, req, dbOk)
    \/ \E c \in Cancels, id \in RequestedIDs, dbOk \in BOOLEAN : CancelLoad(c, id, dbOk)

Complete == \E id \in DOMAIN store : MarkCompleted(id)

\* Calls one after another.
Next ==
    \/ Quiescent /\ Started < MaxCalls /\ Begin
    \/ Quiescent /\ Complete
    \/ Continue

Spec == Init /\ [][Next]_vars

\* A call in progress takes its next step: every store operation and remote call
\* it waits for returns.
ExecStep(r) ==
    \/ \E answer \in PaymentAnswers : ExecutePayment(r, answer) \/ ExecuteRefund(r, answer)
    \/ \E ok \in BOOLEAN :
          \/ ExecutePaymentFailed(r, ok)
          \/ ExecuteActivate(r, ok)
          \/ ExecuteRefunded(r, ok)
          \/ ExecutePublish(r, ok)

CancelStep(c) ==
    \/ \E answer \in PaymentAnswers : CancelRefund(c, answer)
    \/ \E dbOk \in BOOLEAN : CancelUpdate(c, dbOk)

\* Calls one after another, each call in progress going on to its return.
NextFair ==
    \/ Quiescent /\ Started < MaxFairCalls /\ Begin
    \/ Quiescent /\ Complete
    \/ Continue

FairSpec ==
    /\ Init /\ [][NextFair]_vars
    /\ \A r \in Runs : WF_vars(ExecStep(r))
    /\ \A c \in Cancels : WF_vars(CancelStep(c))

\* Calls one after another, whose caller may cancel the ctx of an Execute call
\* at any step.
NextCtx ==
    \/ Quiescent /\ Started < MaxCtxCalls /\ Begin
    \/ Quiescent /\ Complete
    \/ Continue
    \/ \E r \in Runs : ContextCancelled(r)

CtxSpec == Init /\ [][NextCtx]_vars

\* Calls whose steps interleave.
NextConc ==
    \/ Started < MaxConcCalls /\ Begin
    \/ Complete
    \/ Continue

ConcSpec == Init /\ [][NextConc]_vars

----------------------------------------------------------------------------
(* Enrollment.Validate on its own *)

\* The enrollments Validate is called on: every combination of an empty and a
\* non-empty UserID and CourseID, an amount below, at and above zero, a
\* progress below, at and above each end of the range, in two statuses.
AmountInputs == {0 - 1, 0, 50}
ProgressInputs == {0 - 1, 0, 50, 100, 101}
ValidateInputs ==
    [ID : {"enr_v"}, UserID : UserIDs, CourseID : CourseIDs,
     Status : {StatusPending, StatusActive},
     AmountPaid : AmountInputs, PaymentID : {""},
     EnrolledAt : {1}, CompletedAt : {NoTime},
     ProgressPercentage : ProgressInputs]

ValidateInit ==
    /\ SagaInit
    /\ consumer = NoConsumer
    /\ CourseInit
    /\ UserInit
    /\ \E e \in ValidateInputs :
          validation = [pc |-> "called", e |-> e, receiver |-> e, err |-> Nil]

\* The receiver after Validate: the method reads its fields and assigns none.
ValidateReceiver(e) == e

\* e.Validate() returns.
ValidateReturns ==
    /\ validation.pc = "called"
    /\ validation' = [validation EXCEPT !.pc = "returned",
                                        !.receiver = ValidateReceiver(validation.e),
                                        !.err = Validate(validation.e)]
    /\ UNCHANGED nonValidation

ValidateNext == ValidateReturns

ValidateSpec == ValidateInit /\ [][ValidateNext]_vars

----------------------------------------------------------------------------
(* kafka.Consumer *)

\* The offsets of the messages of the partition.
Offsets == 1..MaxMessages

\* Start is called: the reader is open, at the first message, with nothing
\* handled and nothing committed.
ConsumerInit ==
    /\ SagaInit
    /\ validation = NoValidation
    /\ CourseInit
    /\ UserInit
    /\ consumer = [pc |-> "select", ctxDone |-> FALSE, next |-> 1, msg |-> 0,
                   results |-> [m \in Offsets |-> "none"],
                   committed |-> 0, closes |-> 0]

\* The select at the head of the loop: when ctx is done Start closes the
\* reader and returns, otherwise it goes on to fetch.
ConsumerSelect ==
    /\ consumer.pc = "select"
    /\ consumer' = IF consumer.ctxDone
                   THEN [consumer EXCEPT !.pc = "returned", !.closes = @ + 1]
                   ELSE [consumer EXCEPT !.pc = "fetch"]
    /\ UNCHANGED nonConsumer

\* AfterFetch returning from Start on a fetch error.
AfterFetch_ReturningError(c, ok) ==
    IF ~ok THEN [c EXCEPT !.pc = "returned"]
    ELSE [c EXCEPT !.pc = "handle", !.msg = c.next, !.next = c.next + 1]

\* After FetchMessage: an error is logged and the loop continues; a message
\* goes to the handler, and the reader moves past it.
AfterFetch(c, ok) ==
    IF ~ok THEN [c EXCEPT !.pc = "select"]
    ELSE [c EXCEPT !.pc = "handle", !.msg = c.next, !.next = c.next + 1]

\* FetchMessage(ctx) returns: the next message of the partition when there is
\* one, or an error; an error when ctx is done.
ConsumerFetch(ok) ==
    /\ consumer.pc = "fetch"
    /\ ok => ~consumer.ctxDone /\ consumer.next \in Offsets
    /\ consumer' = AfterFetch(consumer, ok)
    /\ UNCHANGED nonConsumer

\* The handler returns: on an error the loop continues without a commit.
ConsumerHandle(ok) ==
    /\ consumer.pc = "handle"
    /\ consumer' = [consumer EXCEPT
                       !.pc = IF ok THEN "commit" ELSE "select",
                       !.results[consumer.msg] = IF ok THEN "ok" ELSE "error"]
    /\ UNCHANGED nonConsumer

\* The committed offset of the partition after a commit of message m: the
\* group keeps one offset per partition, so that a commit of m covers every
\* message up to m.
Committed(committed, m) == IF m > committed THEN m ELSE committed

\* CommitMessages(ctx, msg) returns; its error is only logged.  It fails when
\* ctx is done.
ConsumerCommit(ok) ==
    /\ consumer.pc = "commit"
    /\ ok => ~consumer.ctxDone
    /\ consumer' = [consumer EXCEPT
                       !.pc = "select",
                       !.committed = IF ok THEN Committed(@, consumer.msg) ELSE @]
    /\ UNCHANGED nonConsumer

\* The caller cancels the ctx of Start.
ConsumerContextCancelled ==
    /\ consumer.pc \notin {"none", "returned"}
    /\ ~consumer.ctxDone
    /\ consumer' = [consumer EXCEPT !.ctxDone = TRUE]
    /\ UNCHANGED nonConsumer

\* The steps of Start.
ConsumerStep ==
    \/ ConsumerSelect
    \/ \E ok \in BOOLEAN : ConsumerFetch(ok)
    \/ \E ok \in BOOLEAN : ConsumerHandle(ok)
    \/ \E ok \in BOOLEAN : ConsumerCommit(ok)

ConsumerNext == ConsumerStep \/ ConsumerContextCancelled

ConsumerSpec == ConsumerInit /\ [][ConsumerNext]_vars

\* Start goes on: the reader, the handler and the commit return.
ConsumerFairSpec == ConsumerSpec /\ WF_vars(ConsumerStep)

----------------------------------------------------------------------------
(* course-service: domain and repositories *)

ErrCourseNotFound == <<"course not found">>
ErrUnauthorized == <<"unauthorized">>
StatusDraft == "DRAFT"
StatusPublished == "PUBLISHED"

\* The callers, the titles they give (an empty one is invalid), and ids that
\* name no row.
Instructors == {"i1", "i2"}
Titles == {"", "Go"}
UnknownCourse == "c_x"
UnknownModule == "m_x"
UnknownLesson == "l_x"

\* uuid.New(): an id no row of the table has.
NewID(prefix, rows) ==
    LET n == CHOOSE k \in 1..(Cardinality(DOMAIN rows) + 1) :
                 (prefix \o ToString(k)) \notin DOMAIN rows
    IN  prefix \o ToString(n)

\* A table with one more row, and without one.
Insert(rows, row) == [id \in DOMAIN rows \cup {row.ID} |-> IF id = row.ID THEN row ELSE rows[id]]
Remove(rows, id) == [k \in DOMAIN rows \ {id} |-> rows[k]]

\* SELECT COALESCE(MAX(order_index), -1) over the rows selected.
MaxOrderIndexOf(indexes) ==
    IF indexes = {} THEN 0 - 1
    ELSE CHOOSE x \in indexes : \A y \in indexes : y <= x

\* No row (a nil pointer), and the zero Module.
NoRow == [ID |-> ""]
ZeroModule == [ID |-> "", CourseID |-> "", Title |-> "", OrderIndex |-> 0]

\* Module.Validate and Lesson.Validate, for titles of at most 255 characters.
ModuleValidate(m) ==
    IF m.Title = "" THEN ErrInvalidInput
    ELSE IF m.OrderIndex < 0 THEN ErrInvalidInput
    ELSE Nil
LessonValidate(l) ==
    IF l.Title = "" THEN ErrInvalidInput
    ELSE IF l.OrderIndex < 0 THEN ErrInvalidInput
    ELSE Nil

(* courseRepository *)
CourseCreate(cs, course, dbOk) ==
    IF dbOk /\ course.ID \notin DOMAIN cs
    THEN [rows |-> Insert(cs, course), err |-> Nil]
    ELSE [rows |-> cs, err |-> Wrap("failed to create course", <<"db">>)]

\* GetByID passes course.ID, a string and not a pointer to one, as the first
\* destination of Scan: for a row that exists Scan fails ("destination not a
\* pointer"), and GetByID returns that error wrapped.  A missing row gives
\* ErrCourseNotFound before any column is scanned.
CourseGetByID(cs, id, dbOk) ==
    IF ~dbOk THEN [row |-> NoRow, err |-> Wrap("failed to get course", <<"db">>)]
    ELSE IF id \notin DOMAIN cs THEN [row |-> NoRow, err |-> ErrCourseNotFound]
    ELSE [row |-> NoRow,
          err |-> Wrap("failed to get course",
                       <<"sql: Scan error on column index 0: destination not a pointer">>)]

CourseUpdate(cs, course, dbOk) ==
    IF ~dbOk THEN [rows |-> cs, err |-> Wrap("failed to update course", <<"db">>)]
    ELSE IF course.ID \notin DOMAIN cs THEN [rows |-> cs, err |-> ErrCourseNotFound]
    ELSE [rows |-> [cs EXCEPT ![course.ID] =
                       [@ EXCEPT !.Title = course.Title, !.Status = course.Status]],
          err |-> Nil]

CourseDelete(cs, id, dbOk) ==
    IF ~dbOk THEN [rows |-> cs, err |-> Wrap("failed to delete course", <<"db">>)]
    ELSE IF id \notin DOMAIN cs THEN [rows |-> cs, err |-> ErrCourseNotFound]
    ELSE [rows |-> Remove(cs, id), err |-> Nil]

(* moduleRepository: its errors are returned as they are *)
ModuleCreate(ms, module, dbOk) ==
    IF dbOk /\ module.ID \notin DOMAIN ms
    THEN [rows |-> Insert(ms, module), err |-> Nil]
    ELSE [rows |-> ms, err |-> <<"db">>]

\* Only sql.ErrNoRows is looked at: after any other error GetByID returns the
\* zero Module and nil.
ModuleGetByID(ms, id, dbOk) ==
    IF ~dbOk THEN [row |-> ZeroModule, err |-> Nil]
    ELSE IF id \notin DOMAIN ms THEN [row |-> NoRow, err |-> ErrCourseNotFound]
    ELSE [row |-> ms[id], err |-> Nil]

ModuleUpdate(ms, module, dbOk) ==
    IF ~dbOk THEN [rows |-> ms, err |-> <<"db">>]
    ELSE IF module.ID \notin DOMAIN ms THEN [rows |-> ms, err |-> ErrCourseNotFound]
    ELSE [rows |-> [ms EXCEPT ![module.ID] =
                       [@ EXCEPT !.Title = module.Title, !.OrderIndex = module.OrderIndex]],
          err |-> Nil]

ModuleDelete(ms, id, dbOk) ==
    IF ~dbOk THEN [rows |-> ms, err |-> <<"db">>]
    ELSE IF id \notin DOMAIN ms THEN [rows |-> ms, err |-> ErrCourseNotFound]
    ELSE [rows |-> Remove(ms, id), err |-> Nil]

\* The module repository of the sources has no GetMaxOrderIndex: the one the
\* service calls is taken to be the query of the lesson repository, over the
\* modules of a course.
ModuleGetMaxOrderIndex(ms, courseID, dbOk) ==
    IF ~dbOk THEN [max |-> 0, err |-> Wrap("failed to get max order index", <<"db">>)]
    ELSE [max |-> MaxOrderIndexOf({ms[m].OrderIndex : m \in {k \in DOMAIN ms : ms[k].CourseID = courseID}}),
          err |-> Nil]

(* lessonRepository *)
LessonCreate(ls, lesson, dbOk) ==
    IF dbOk /\ lesson.ID \notin DOMAIN ls
    THEN [rows |-> Insert(ls, lesson), err |-> Nil]
    ELSE [rows |-> ls, err |-> Wrap("failed to create lesson", <<"db">>)]

LessonGetByID(ls, id, dbOk) ==
    IF ~dbOk THEN [row |-> NoRow, err |-> Wrap("failed to get lesson", <<"db">>)]
    ELSE IF id \notin DOMAIN ls THEN [row |-> NoRow, err |-> ErrCourseNotFound]
    ELSE [row |-> ls[id], err |-> Nil]

LessonUpdate(ls, lesson, dbOk) ==
    IF ~dbOk THEN [rows |-> ls, err |-> Wrap("failed to update lesson", <<"db">>)]
    ELSE IF lesson.ID \notin DOMAIN ls THEN [rows |-> ls, err |-> ErrCourseNotFound]
    ELSE [rows |-> [ls EXCEPT ![lesson.ID] =
                       [@ EXCEPT !.Title = lesson.Title, !.OrderIndex = lesson.OrderIndex]],
          err |-> Nil]

LessonDelete(ls, id, dbOk) ==
    IF ~dbOk THEN [rows |-> ls, err |-> Wrap("failed to delete lesson", <<"db">>)]
    ELSE IF id \notin DOMAIN ls THEN [rows |-> ls, err |-> ErrCourseNotFound]
    ELSE [rows |-> Remove(ls, id), err |-> Nil]

LessonGetMaxOrderIndex(ls, moduleID, dbOk) ==
    IF ~dbOk THEN [max |-> 0, err |-> Wrap("failed to get max order index", <<"db">>)]
    ELSE [max |-> MaxOrderIndexOf({ls[l].OrderIndex : l \in {k \in DOMAIN ls : ls[k].ModuleID = moduleID}}),
          err |-> Nil]

(* courseService: what each operation leaves in the three tables and the
   error it returns.  dbOk says whether the database answers the calls of the
   operation. *)

Returned(cs, ms, ls, err) == [courses |-> cs, modules |-> ms, lessons |-> ls, err |-> err]

ErrModuleNotOfCourse == <<"module does not belong to course">>
ErrLessonNotOfModule == <<"lesson does not belong to module">>
NilDereference == <<"panic: nil pointer dereference">>

validateCreateCourseRequest(title) ==
    IF title = "" THEN <<"title is required">> ELSE Nil

CreateCourseResult(cs, ms, ls, instructorID, title, dbOk) ==
    IF validateCreateCourseRequest(title) # Nil
    THEN Returned(cs, ms, ls, validateCreateCourseRequest(title))
    ELSE LET course == [ID |-> NewID("c", cs), Title |-> title,
                        InstructorID |-> instructorID, Status |-> StatusDraft]
             created == CourseCreate(cs, course, dbOk)
         IN  Returned(created.rows, ms, ls, created.err)

PublishCourseResult(cs, ms, ls, courseID, instructorID, dbOk) ==
    LET got == CourseGetByID(cs, courseID, dbOk) IN
    IF got.err # Nil THEN Returned(cs, ms, ls, got.err)
    ELSE IF got.row.InstructorID # instructorID THEN Returned(cs, ms, ls, ErrUnauthorized)
    ELSE LET updated == CourseUpdate(cs, [got.row EXCEPT !.Status = StatusPublished], dbOk)
         IN  Returned(updated.rows, ms, ls, updated.err)

UpdateCourseResult(cs, ms, ls, courseID, instructorID, title, dbOk) ==
    LET got == CourseGetByID(cs, courseID, dbOk) IN
    IF got.err # Nil THEN Returned(cs, ms, ls, got.err)
    ELSE IF got.row.InstructorID # instructorID THEN Returned(cs, ms, ls, ErrUnauthorized)
    ELSE LET updated == CourseUpdate(cs, [got.row EXCEPT !.Title = title], dbOk)
         IN  Returned(updated.rows, ms, ls, updated.err)

DeleteCourseResult(cs, ms, ls, courseID, instructorID, dbOk) ==
    LET got == CourseGetByID(cs, courseID, dbOk) IN
    IF got.err # Nil THEN Returned(cs, ms, ls, got.err)
    ELSE IF got.row.InstructorID # instructorID THEN Returned(cs, ms, ls, ErrUnauthorized)
    ELSE LET deleted == CourseDelete(cs, courseID, dbOk)
         IN  Returned(deleted.rows, ms, ls, deleted.err)

AddModuleResult(cs, ms, ls, courseID, instructorID, title, dbOk) ==
    LET got == CourseGetByID(cs, courseID, dbOk) IN
    IF got.err # Nil THEN Returned(cs, ms, ls, got.err)
    ELSE IF got.row.InstructorID # instructorID THEN Returned(cs, ms, ls, ErrUnauthorized)
    ELSE LET maxIndex == ModuleGetMaxOrderIndex(ms, courseID, dbOk) IN
         IF maxIndex.err # Nil THEN Returned(cs, ms, ls, maxIndex.err)
         ELSE LET module == [ID |-> NewID("m", ms), CourseID |-> courseID,
                             Title |-> title, OrderIndex |-> maxIndex.max + 1]
              IN  IF ModuleValidate(module) # Nil
                  THEN Returned(cs, ms, ls, ModuleValidate(module))
                  ELSE LET created == ModuleCreate(ms, module, dbOk)
                       IN  Returned(cs, created.rows, ls, created.err)

UpdateModuleResult(cs, ms, ls, moduleID, courseID, instructorID, title, dbOk) ==
    LET got == CourseGetByID(cs, courseID, dbOk) IN
    IF got.err # Nil THEN Returned(cs, ms, ls, got.err)
    ELSE IF instructorID # got.row.InstructorID THEN Returned(cs, ms, ls, ErrUnauthorized)
    ELSE LET module == ModuleGetByID(ms, moduleID, dbOk) IN
         IF module.err # Nil THEN Returned(cs, ms, ls, module.err)
         ELSE IF module.row.CourseID # courseID THEN Returned(cs, ms, ls, ErrModuleNotOfCourse)
         ELSE LET changed == IF title # "" THEN [module.row EXCEPT !.Title = title]
                             ELSE module.row
                  updated == ModuleUpdate(ms, changed, dbOk)
              IN  Returned(cs, updated.rows, ls, updated.err)

DeleteModuleResult(cs, ms, ls, moduleID, courseID, instructorID, dbOk) ==
    LET got == CourseGetByID(cs, courseID, dbOk) IN
    IF got.err # Nil THEN Returned(cs, ms, ls, got.err)
    ELSE IF got.row.InstructorID # instructorID THEN Returned(cs, ms, ls, ErrUnauthorized)
    ELSE LET module == ModuleGetByID(ms, moduleID, dbOk) IN
         IF module.err # Nil THEN Returned(cs, ms, ls, module.err)
         ELSE IF module.row.CourseID # courseID THEN Returned(cs, ms, ls, ErrModuleNotOfCourse)
         ELSE LET deleted == ModuleDelete(ms, moduleID, dbOk)
              IN  Returned(cs, deleted.rows, ls, deleted.err)

AddLessonResult(cs, ms, ls, moduleID, courseID, instructorID, title, dbOk) ==
    LET got == CourseGetByID(cs, courseID, dbOk) IN
    IF got.err # Nil THEN Returned(cs, ms, ls, got.err)
    ELSE IF got.row.InstructorID # instructorID THEN Returned(cs, ms, ls, ErrUnauthorized)
    ELSE LET module == ModuleGetByID(ms, moduleID, dbOk) IN
         IF module.err # Nil THEN Returned(cs, ms, ls, module.err)
         ELSE IF module.row.CourseID # courseID THEN Returned(cs, ms, ls, ErrModuleNotOfCourse)
         ELSE LET maxIndex == LessonGetMaxOrderIndex(ls, moduleID, dbOk) IN
              IF maxIndex.err # Nil THEN Returned(cs, ms, ls, maxIndex.err)
              ELSE LET lesson == [ID |-> NewID("l", ls), ModuleID |-> moduleID,
                                  Title |-> title, OrderIndex |-> maxIndex.max + 1]
                   IN  IF LessonValidate(lesson) # Nil
                       THEN Returned(cs, ms, ls, LessonValidate(lesson))
                       ELSE LET created == LessonCreate(ls, lesson, dbOk)
                            IN  Returned(cs, ms, created.rows, created.err)

UpdateLessonResult(cs, ms, ls, lessonID, moduleID, courseID, instructorID, title, dbOk) ==
    LET got == CourseGetByID(cs, courseID, dbOk) IN
    IF got.err # Nil THEN Returned(cs, ms, ls, got.err)
    ELSE IF got.row.InstructorID # instructorID THEN Returned(cs, ms, ls, ErrUnauthorized)
    ELSE LET module == ModuleGetByID(ms, moduleID, dbOk) IN
         IF module.err # Nil THEN Returned(cs, ms, ls, module.err)
         ELSE IF module.row.CourseID # courseID THEN Returned(cs, ms, ls, ErrModuleNotOfCourse)
         ELSE LET lesson == LessonGetByID(ls, lessonID, dbOk) IN
              IF lesson.err # Nil THEN Returned(cs, ms, ls, lesson.err)
              ELSE IF lesson.row.ModuleID # moduleID THEN Returned(cs, ms, ls, ErrLessonNotOfModule)
              ELSE LET changed == [lesson.row EXCEPT !.Title = title] IN
                   IF LessonValidate(changed) # Nil
                   THEN Returned(cs, ms, ls, LessonValidate(changed))
                   ELSE LET updated == LessonUpdate(ls, changed, dbOk)
                        IN  Returned(cs, ms, updated.rows, updated.err)

\* The error of lessonRepo.GetByID is not looked at: a lesson that was not
\* loaded is a nil pointer, and reading its ModuleID panics.
DeleteLessonResult(cs, ms, ls, lessonID, moduleID, courseID, instructorID, dbOk) ==
    LET got == CourseGetByID(cs, courseID, dbOk) IN
    IF got.err # Nil THEN Returned(cs, ms, ls, got.err)
    ELSE IF got.row.InstructorID # instructorID THEN Returned(cs, ms, ls, ErrUnauthorized)
    ELSE LET module == ModuleGetByID(ms, moduleID, dbOk) IN
         IF module.err # Nil THEN Returned(cs, ms, ls, module.err)
         ELSE IF module.row.CourseID # courseID THEN Returned(cs, ms, ls, ErrModuleNotOfCourse)
         ELSE LET lesson == LessonGetByID(ls, lessonID, dbOk) IN
              IF lesson.err # Nil THEN Returned(cs, ms, ls, NilDereference)
              ELSE IF lesson.row.ModuleID # moduleID THEN Returned(cs, ms, ls, ErrLessonNotOfModule)
              ELSE LET deleted == LessonDelete(ls, lessonID, dbOk)
                   IN  Returned(cs, ms, deleted.rows, deleted.err)

(* The operations as steps: a call runs to its return, and lastOp keeps the
   call that returned last. *)

CourseArgs == DOMAIN courses \cup {UnknownCourse}
ModuleArgs == DOMAIN modules \cup {UnknownModule}
LessonArgs == DOMAIN lessons \cup {UnknownLesson}

CourseReturn(op, instructorID, courseID, title, dbOk, r) ==
    /\ courses' = r.courses
    /\ modules' = r.modules
    /\ lessons' = r.lessons
    /\ lastOp' = [op |-> op, instructorID |-> instructorID, courseID |-> courseID,
                  title |-> title, dbOk |-> dbOk, ret |-> r.err]
    /\ UNCHANGED nonCourse

CreateCourse(instructorID, title, dbOk) ==
    /\ Cardinality(DOMAIN courses) < MaxCourses
    /\ CourseReturn("CreateCourse", instructorID, "", title, dbOk,
              CreateCourseResult(courses, modules, lessons, instructorID, title, dbOk))

PublishCourse(courseID, instructorID, dbOk) ==
    CourseReturn("PublishCourse", instructorID, courseID, "", dbOk,
           PublishCourseResult(courses, modules, lessons, courseID, instructorID, dbOk))

UpdateCourse(courseID, instructorID, title, dbOk) ==
    CourseReturn("UpdateCourse", instructorID, courseID, title, dbOk,
           UpdateCourseResult(courses, modules, lessons, courseID, instructorID, title, dbOk))

DeleteCourse(courseID, instructorID, dbOk) ==
    CourseReturn("DeleteCourse", instructorID, courseID, "", dbOk,
           DeleteCourseResult(courses, modules, lessons, courseID, instructorID, dbOk))

AddModule(courseID, instructorID, title, dbOk) ==
    CourseReturn("AddModule", instructorID, courseID, title, dbOk,
           AddModuleResult(courses, modules, lessons, courseID, instructorID, title, dbOk))

UpdateModule(moduleID, courseID, instructorID, title, dbOk) ==
    CourseReturn("UpdateModule", instructorID, courseID, title, dbOk,
           UpdateModuleResult(courses, modules, lessons, moduleID, courseID, instructorID, title, dbOk))

DeleteModule(moduleID, courseID, instructorID, dbOk) ==
    CourseReturn("DeleteModule", instructorID, courseID, "", dbOk,
           DeleteModuleResult(courses, modules, lessons, moduleID, courseID, instructorID, dbOk))

AddLesson(moduleID, courseID, instructorID, title, dbOk) ==
    CourseReturn("AddLesson", instructorID, courseID, title, dbOk,
           AddLessonResult(courses, modules, lessons, moduleID, courseID, instructorID, title, dbOk))

UpdateLesson(lessonID, moduleID, courseID, instructorID, title, dbOk) ==
    CourseReturn("UpdateLesson", instructorID, courseID, title, dbOk,
           UpdateLessonResult(courses, modules, lessons, lessonID, moduleID, courseID, instructorID, title, dbOk))

DeleteLesson(lessonID, moduleID, courseID, instructorID, dbOk) ==
    CourseReturn("DeleteLesson", instructorID, courseID, "", dbOk,
           DeleteLessonResult(courses, modules, lessons, lessonID, moduleID, courseID, instructorID, dbOk))

CourseNext ==
    \E instructorID \in Instructors, title \in Titles, dbOk \in BOOLEAN :
        \/ CreateCourse(instructorID, title, dbOk)
        \/ \E courseID \in CourseArgs :
               \/ PublishCourse(courseID, instructorID, dbOk)
               \/ UpdateCourse(courseID, instructorID, title, dbOk)
               \/ DeleteCourse(courseID, instructorID, dbOk)
               \/ AddModule(courseID, instructorID, title, dbOk)
               \/ \E moduleID \in ModuleArgs :
                      \/ UpdateModule(moduleID, courseID, instructorID, title, dbOk)
                      \/ DeleteModule(moduleID, courseID, instructorID, dbOk)
                      \/ AddLesson(moduleID, courseID, instructorID, title, dbOk)
                      \/ \E lessonID \in LessonArgs :
                             \/ UpdateLesson(lessonID, moduleID, courseID, instructorID, title, dbOk)
                             \/ DeleteLesson(lessonID, moduleID, courseID, instructorID, dbOk)

CourseSpecInit ==
    /\ SagaInit
    /\ validation = NoValidation
    /\ consumer = NoConsumer
    /\ CourseInit
    /\ UserInit

CourseSpec == CourseSpecInit /\ [][CourseNext]_vars

----------------------------------------------------------------------------
(* user-service: Register *)

ErrUserNotFound == <<"user not found">>
ErrEmailAlreadyExists == <<"email already exists">>

Regs == 1..MaxRegs
Emails == {"a@x", "b@x"}

\* The error of an INSERT that a unique constraint rejects.
DuplicateKey == <<"pq: duplicate key value violates unique constraint">>

IdleReg == [pc |-> "idle", email |-> "", userID |-> "", ret |-> Nil]

\* The users table is created outside the service: the only CREATE TABLE of
\* the sources spells the constraint of the email column UNQIUE, which no
\* database accepts, and idx_users_email is a plain index.  Whether the table
\* the service runs on rejects a second row with the same email is left open.
UserSpecInit ==
    /\ SagaInit
    /\ validation = NoValidation
    /\ consumer = NoConsumer
    /\ CourseInit
    /\ \E unique \in BOOLEAN : users = [emailUnique |-> unique, rows |-> {}]
    /\ reg = [g \in Regs |-> IdleReg]

(* userRepository *)
UserGetByEmail(us, email, dbOk) ==
    IF ~dbOk THEN [found |-> FALSE, err |-> Wrap("failed to get user", <<"db">>)]
    ELSE IF \E u \in us.rows : u.Email = email THEN [found |-> TRUE, err |-> Nil]
    ELSE [found |-> FALSE, err |-> ErrUserNotFound]

\* A plain INSERT: only the table can refuse a row.
UserCreate(us, user, dbOk) ==
    IF ~dbOk THEN [users |-> us, err |-> Wrap("failed to create user", <<"db">>)]
    ELSE IF us.emailUnique /\ \E u \in us.rows : u.Email = user.Email
    THEN [users |-> us, err |-> Wrap("failed to create user", DuplicateKey)]
    ELSE [users |-> [us EXCEPT !.rows = @ \cup {user}], err |-> Nil]

(* userService.Register *)

\* Register up to its INSERT: GetByEmail, then the password hash
\* (bcrypt refuses a password that is too long).
RegisterCheck(g, email, dbOk, hashOk) ==
    /\ reg[g].pc = "idle"
    /\ LET existing == UserGetByEmail(users, email, dbOk)
           called == [reg[g] EXCEPT !.email = email]
       IN  reg' = [reg EXCEPT ![g] =
               IF existing.err # Nil /\ existing.err # ErrUserNotFound
               THEN [called EXCEPT !.pc = "done",
                                   !.ret = Wrap("failed to check existing user", existing.err)]
               ELSE IF existing.found
               THEN [called EXCEPT !.pc = "done", !.ret = ErrEmailAlreadyExists]
               ELSE IF ~hashOk
               THEN [called EXCEPT !.pc = "done",
                                   !.ret = Wrap("failed to hash password", <<"bcrypt">>)]
               ELSE [called EXCEPT !.pc = "create", !.userID = "u" \o ToString(g)]]
    /\ UNCHANGED <<users, nonUser>>

\* The INSERT and the rest of Register: the two tokens, and the event, whose
\* publish error is only logged.
RegisterCreate(g, dbOk, tokenOk) ==
    /\ reg[g].pc = "create"
    /\ LET created == UserCreate(users, [ID |-> reg[g].userID, Email |-> reg[g].email], dbOk)
       IN  /\ users' = created.users
           /\ reg' = [reg EXCEPT ![g] =
                  IF created.err # Nil
                  THEN [@ EXCEPT !.pc = "done", !.ret = Wrap("failed to create user", created.err)]
                  ELSE IF ~tokenOk
                  THEN [@ EXCEPT !.pc = "done",
                                 !.ret = Wrap("failed tp generate access token", <<"jwt">>)]
                  ELSE [@ EXCEPT !.pc = "done", !.ret = Nil]]
    /\ UNCHANGED nonUser

UserNext ==
    \E g \in Regs, dbOk \in BOOLEAN :
        \/ \E email \in Emails, hashOk \in BOOLEAN : RegisterCheck(g, email, dbOk, hashOk)
        \/ \E tokenOk \in BOOLEAN : RegisterCreate(g, dbOk, tokenOk)

UserSpec == UserSpecInit /\ [][UserNext]_vars

----------------------------------------------------------------------------
(* Observations on a call *)

\* The calls of a log on one operation.
CallsOf(calls, op) == SelectSeq(calls, LAMBDA k : k.op = op)

\* The Execute call of run r, or the CancelEnrollment call c, returns in this step.
Returns(r) == exec[r].pc # "done" /\ exec'[r].pc = "done"
CancelReturns(c) == cancel[c].pc # "done" /\ cancel'[c].pc = "done"

\* Run x persisted its PENDING record: its Create was answered without error.
Created(x) == \E i \in 1..Len(x.calls) : x.calls[i].op = "Create" /\ x.calls[i].ans = Nil

\* The payment client reported failure to run x, or reported COMPLETED.
PaymentFailed(x) ==
    \E i \in 1..Len(x.calls) :
        x.calls[i].op = "ProcessPayment" /\ x.calls[i].ans # PaymentStatus_COMPLETED
PaymentCompleted(x) ==
    \E i \in 1..Len(x.calls) :
        x.calls[i].op = "ProcessPayment" /\ x.calls[i].ans = PaymentStatus_COMPLETED

\* The activation Update of run x (the Update that writes ACTIVE) failed.
ActivationFailed(x) ==
    \E i \in 1..Len(x.calls) :
        /\ x.calls[i].op = "Update"
        /\ x.calls[i].arg.Status = StatusActive
        /\ x.calls[i].ans # Nil

\* The last call of a log was answered without error.
LastCallOk(x) == Len(x.calls) > 0 /\ x.calls[Len(x.calls)].ans = Nil

\* The persisted status of the enrollment of run x in store st.
Persisted(x, st) == st[x.enrollment.ID]

----------------------------------------------------------------------------
(* C1 *)

C1Post(x, st) ==
    IF x.ret.err = Nil
    THEN /\ x.ret.enrollment # NoEnrollment
         /\ x.ret.enrollment.Status = StatusActive
         /\ x.ret.enrollment.PaymentID # ""
         /\ x.ret.enrollment.ID \in DOMAIN st
         /\ st[x.ret.enrollment.ID].Status = StatusActive
         /\ st[x.ret.enrollment.ID].PaymentID = x.ret.enrollment.PaymentID
    ELSE x.ret.enrollment = NoEnrollment

\* C1: when Execute returns without error, the returned enrollment is ACTIVE
\* with a non-empty PaymentID and the store holds, at that moment, the record of
\* the same id as ACTIVE with the same PaymentID; when it returns an error it
\* returns no enrollment.
C1_ExecuteSuccessIsActive ==
    [][\A r \in Runs : Returns(r) => C1Post(exec'[r], store')]_vars

\* An Execute call has returned an ACTIVE enrollment, and another an error.
C1_Witness ==
    /\ \E r \in Runs : /\ exec[r].pc = "done"
                       /\ exec[r].ret.err = Nil
                       /\ exec[r].ret.enrollment.Status = StatusActive
    /\ \E r \in Runs : exec[r].pc = "done" /\ exec[r].ret.err # Nil /\ Created(exec[r])

----------------------------------------------------------------------------
(* C2 *)

\* C2 as stated: when the payment client reports failure, Execute returns an
\* error and the persisted record is CANCELLED with an empty PaymentID.
C2_AsStated ==
    [][\A r \in Runs :
          (Returns(r) /\ PaymentFailed(exec'[r])) =>
              /\ exec'[r].ret.err # Nil
              /\ exec'[r].enrollment.ID \in DOMAIN store' =>
                    /\ Persisted(exec'[r], store').Status = StatusCancelled
                    /\ Persisted(exec'[r], store').PaymentID = ""]_vars

\* C2, amended: when the payment client reports failure, Execute returns the
\* payment-failed error and no enrollment, and the persisted record has an
\* empty PaymentID and is CANCELLED when the Update that writes CANCELLED
\* succeeded, and still PENDING when that Update failed.
C2_PaymentFailureCancels ==
    [][\A r \in Runs :
          (Returns(r) /\ PaymentFailed(exec'[r])) =>
              /\ exec'[r].ret.err # Nil
              /\ Head(exec'[r].ret.err) = "payment failed"
              /\ exec'[r].ret.enrollment = NoEnrollment
              /\ exec'[r].enrollment.ID \in DOMAIN store'
              /\ Persisted(exec'[r], store').PaymentID = ""
              /\ Persisted(exec'[r], store').Status =
                    IF LastCallOk(exec'[r]) THEN StatusCancelled ELSE StatusPending]_vars

\* Execute has returned after a declined payment with CANCELLED persisted, and
\* after a transport error of the payment client.
C2_Witness ==
    /\ \E r \in Runs :
          /\ exec[r].pc = "done"
          /\ \E i \in 1..Len(exec[r].calls) :
                exec[r].calls[i].op = "ProcessPayment" /\ exec[r].calls[i].ans = "FAILED"
          /\ LastCallOk(exec[r])
          /\ Persisted(exec[r], store).Status = StatusCancelled
    /\ \E r \in Runs :
          /\ exec[r].pc = "done"
          /\ \E i \in 1..Len(exec[r].calls) :
                exec[r].calls[i].op = "ProcessPayment" /\ exec[r].calls[i].ans = "rpc error"

----------------------------------------------------------------------------
(* C3 *)

\* The refund client was invoked exactly once by run x, with the payment id of
\* the successful charge.
RefundedOnce(r, x, ps) ==
    /\ Len(CallsOf(x.calls, "RefundPayment")) = 1
    /\ CallsOf(x.calls, "RefundPayment")[1].arg = x.paymentID
    /\ x.paymentID \in DOMAIN ps
    /\ ps[x.paymentID].run = r

\* C3 as stated: when the activation Update fails, the refund client is
\* invoked exactly once with the payment id of the charge and the final
\* persisted status is REFUNDED.
C3_AsStated ==
    [][\A r \in Runs :
          (Returns(r) /\ ActivationFailed(exec'[r])) =>
              /\ RefundedOnce(r, exec'[r], payments')
              /\ Persisted(exec'[r], store').Status = StatusRefunded]_vars

\* C3, amended: when the activation Update fails, the refund client is invoked
\* exactly once with the payment id of the charge, Execute returns the
\* activation error, and the final persisted status is REFUNDED when the
\* Update that writes REFUNDED succeeded and still PENDING when it failed.
C3_ActivationFailureRefunds ==
    [][\A r \in Runs :
          (Returns(r) /\ ActivationFailed(exec'[r])) =>
              /\ RefundedOnce(r, exec'[r], payments')
              /\ exec'[r].ret.err # Nil
              /\ Head(exec'[r].ret.err) = "failed to activate enrollment"
              /\ Persisted(exec'[r], store').Status =
                    IF LastCallOk(exec'[r]) THEN StatusRefunded ELSE StatusPending]_vars

\* Execute has returned after a failed activation Update, a refund and a
\* successful Update to REFUNDED.
C3_Witness ==
    \E r \in Runs :
        /\ exec[r].pc = "done"
        /\ ActivationFailed(exec[r])
        /\ RefundedOnce(r, exec[r], payments)
        /\ Persisted(exec[r], store).Status = StatusRefunded

----------------------------------------------------------------------------
(* C4 *)

\* CancelEnrollment call c begins in this step.
CancelBegins(c) == cancel[c].pc = "idle" /\ cancel'[c].pc # "idle"

\* C4: CancelEnrollment on an enrollment that does not exist, or whose status
\* is COMPLETED, CANCELLED or REFUNDED, returns an error (not-found, invalid
\* state, or the error of the load) after the load alone: no refund call, no
\* store write; CanBeCancelled is true exactly for PENDING and ACTIVE.
C4_CancelRefused ==
    [][/\ \A s \in EnrollmentStatus :
             CanBeCancelled([Status |-> s]) <=> s \in {StatusPending, StatusActive}
       /\ \A c \in Cancels :
             LET id == cancel'[c].id
                 loaded == cancel'[c].calls[1].ans
             IN  (/\ CancelBegins(c)
                  /\ \/ id \notin DOMAIN store
                     \/ store[id].Status \in {StatusCompleted, StatusCancelled, StatusRefunded})
                 => /\ cancel'[c].pc = "done"
                    /\ cancel'[c].ret # Nil
                    /\ cancel'[c].ret =
                          IF loaded # Nil THEN loaded
                          ELSE <<"enrollment cannot be cancelled in status", store[id].Status>>
                    /\ id \notin DOMAIN store /\ loaded = ErrEnrollmentNotFound
                          => cancel'[c].ret = ErrEnrollmentNotFound
                    /\ Len(cancel'[c].calls) = 1
                    /\ store' = store
                    /\ payments' = payments]_vars

\* One CancelEnrollment was refused on a COMPLETED enrollment, another on an
\* id that does not exist.
C4_Witness ==
    /\ \E c \in Cancels :
          /\ cancel[c].pc = "done"
          /\ cancel[c].ret = <<"enrollment cannot be cancelled in status", StatusCompleted>>
    /\ \E c \in Cancels :
          /\ cancel[c].pc = "done"
          /\ cancel[c].ret = ErrEnrollmentNotFound

----------------------------------------------------------------------------
(* C5 *)

\* The record of id in st is PENDING with an empty PaymentID.
PendingUnpaid(st, id) ==
    id \in DOMAIN st /\ st[id].Status = StatusPending /\ st[id].PaymentID = ""

\* C5: CancelEnrollment on a PENDING enrollment with an empty PaymentID goes
\* on to the Update without a refund call, and when that Update succeeds the
\* persisted status is CANCELLED and the call returns no error.
C5_CancelPending ==
    [][\A c \in Cancels :
          /\ (/\ CancelBegins(c)
              /\ PendingUnpaid(store, cancel'[c].id)
              /\ cancel'[c].calls[1].ans = Nil)
             => /\ cancel'[c].pc = "update"
                /\ store' = store
                /\ payments' = payments
          /\ (/\ cancel[c].pc = "update"
              /\ CancelReturns(c)
              /\ PendingUnpaid(store, cancel[c].id))
             => /\ CallsOf(cancel'[c].calls, "RefundPayment") = <<>>
                /\ payments' = payments
                /\ LastCallOk(cancel'[c])
                      => /\ store'[cancel[c].id].Status = StatusCancelled
                         /\ cancel'[c].ret = Nil]_vars

\* A CancelEnrollment has loaded a record, written CANCELLED and returned nil.
C5_Witness ==
    \E c \in Cancels :
        /\ cancel[c].pc = "done"
        /\ cancel[c].ret = Nil
        /\ Len(cancel[c].calls) = 2
        /\ cancel[c].calls[2].op = "Update"
        /\ store[cancel[c].id].Status = StatusCancelled
        /\ store[cancel[c].id].PaymentID = ""

----------------------------------------------------------------------------
(* C6 *)

\* C6 as stated: when CancelEnrollment refunds and the refund fails (transport
\* error or a status other than COMPLETED), it returns a non-nil error and the
\* persisted status is unchanged.
C6_AsStated ==
    [][\A c \in Cancels :
          (/\ cancel[c].pc = "refund"
           /\ CancelReturns(c)
           /\ cancel'[c].calls[Len(cancel'[c].calls)].ans # PaymentStatus_COMPLETED)
          => /\ cancel'[c].ret # Nil
             /\ store'[cancel[c].id].Status = store[cancel[c].id].Status]_vars

----------------------------------------------------------------------------
(* C7 *)

\* C7 as stated: when CancelEnrollment refunds an ACTIVE enrollment and the
\* refund succeeds, the persisted status is REFUNDED when the call returns.
C7_AsStated ==
    [][\A c \in Cancels :
          (/\ cancel[c].pc = "refund"
           /\ CancelReturns(c)
           /\ cancel[c].enrollment.Status = StatusActive
           /\ cancel[c].enrollment.PaymentID # ""
           /\ cancel'[c].calls[Len(cancel'[c].calls)].ans = PaymentStatus_COMPLETED)
          => store'[cancel[c].id].Status = StatusRefunded]_vars

----------------------------------------------------------------------------
(* C8 *)

\* The Update calls of run x, and whether the last of them succeeded.
Updates(x) == CallsOf(x.calls, "Update")
LastUpdateOk(x) == Len(Updates(x)) > 0 /\ Updates(x)[Len(Updates(x))].ans = Nil

\* C8 as stated: when an Execute run that persisted a PENDING record returns,
\* the persisted status is ACTIVE, CANCELLED or REFUNDED.
C8_AsStated ==
    [][\A r \in Runs :
          (Returns(r) /\ Created(exec'[r])) =>
              Persisted(exec'[r], store').Status
                  \in {StatusActive, StatusCancelled, StatusRefunded}]_vars

\* C8, amended: every Execute run that persisted a PENDING record returns, and
\* when it returns the persisted status is the one its last Update wrote
\* (ACTIVE, CANCELLED or REFUNDED) when that Update succeeded, and is still
\* PENDING when that Update, the best-effort write of CANCELLED or REFUNDED,
\* failed.
C8_ExecuteLeavesPendingOnlyOnFailedWrite ==
    /\ [][\A r \in Runs :
             (Returns(r) /\ Created(exec'[r])) =>
                 LET x == exec'[r]
                     last == Updates(x)[Len(Updates(x))]
                 IN  /\ Len(Updates(x)) > 0
                     /\ last.arg.Status \in {StatusActive, StatusCancelled, StatusRefunded}
                     /\ Persisted(x, store').Status =
                           IF last.ans = Nil THEN last.arg.Status ELSE StatusPending
                     /\ last.ans # Nil => last.arg.Status # StatusActive]_vars
    /\ \A r \in Runs : Created(exec[r]) ~> (exec[r].pc = "done")

\* An Execute run has returned with ACTIVE persisted, another with PENDING
\* left behind by a failed write.
C8_Witness ==
    /\ \E r \in Runs :
          /\ exec[r].pc = "done"
          /\ Created(exec[r])
          /\ LastUpdateOk(exec[r])
          /\ Persisted(exec[r], store).Status = StatusActive
    /\ \E r \in Runs :
          /\ exec[r].pc = "done"
          /\ Created(exec[r])
          /\ ~LastUpdateOk(exec[r])
          /\ Persisted(exec[r], store).Status = StatusPending

----------------------------------------------------------------------------
(* C9 *)

\* C9: the charge is invoked only after Create has returned success; when
\* Create fails, Execute returns that error and no enrollment, having made no
\* other call (no charge, no refund, no store write, no publish), and no record
\* is stored.
C9_ChargeAfterCreate ==
    \A r \in Runs :
        LET x == exec[r] IN
        /\ \A i \in 1..Len(x.calls) :
              x.calls[i].op = "ProcessPayment" =>
                  /\ i > 1
                  /\ x.calls[1].op = "Create"
                  /\ x.calls[1].ans = Nil
                  /\ \A j \in 1..(i - 1) : x.calls[j].op = "Create"
        /\ (Len(x.calls) > 0 /\ x.calls[1].op = "Create" /\ x.calls[1].ans # Nil) =>
              /\ x.pc = "done"
              /\ Len(x.calls) = 1
              /\ x.ret.err = x.calls[1].ans
              /\ x.ret.enrollment = NoEnrollment
              /\ x.enrollment.ID \notin DOMAIN store

\* One Execute run has returned the error of a failed Create, another has
\* charged after its Create.
C9_Witness ==
    /\ \E r \in Runs :
          /\ exec[r].pc = "done"
          /\ Len(exec[r].calls) = 1
          /\ exec[r].calls[1].op = "Create"
          /\ exec[r].calls[1].ans # Nil
    /\ \E r \in Runs : Len(CallsOf(exec[r].calls, "ProcessPayment")) = 1

----------------------------------------------------------------------------
(* C10 *)

\* C10: a record whose persisted status is ACTIVE belongs to an Execute run
\* whose charge was answered COMPLETED before its Update wrote ACTIVE.
C10_ActiveOnlyAfterPayment ==
    \A id \in DOMAIN store :
        store[id].Status = StatusActive =>
            \E r \in Runs :
                /\ exec[r].enrollment.ID = id
                /\ \E i, j \in 1..Len(exec[r].calls) :
                      /\ i < j
                      /\ exec[r].calls[i].op = "ProcessPayment"
                      /\ exec[r].calls[i].ans = PaymentStatus_COMPLETED
                      /\ exec[r].calls[j].op = "Update"
                      /\ exec[r].calls[j].arg.Status = StatusActive
                      /\ exec[r].calls[j].ans = Nil

\* A record is ACTIVE while a CancelEnrollment for it is in progress.
C10_Witness ==
    \E id \in DOMAIN store :
        /\ store[id].Status = StatusActive
        /\ \E c \in Cancels : cancel[c].id = id /\ cancel[c].pc \in {"refund", "update"}

----------------------------------------------------------------------------
(* C11 *)

\* The request of run x fails validation: empty UserID, empty CourseID or
\* negative Amount.
InvalidRequest(req) == req.UserID = "" \/ req.CourseID = "" \/ req.Amount < 0

\* C11: Execute with an empty UserID, an empty CourseID or a negative Amount
\* returns the validation error and no enrollment, having called neither the
\* store, nor the payment client, nor the publisher; no record and no payment
\* of that run exist.
C11_InvalidRequestTouchesNothing ==
    \A r \in Runs :
        (exec[r].pc # "idle" /\ InvalidRequest(exec[r].req)) =>
            /\ exec[r].pc = "done"
            /\ exec[r].ret.err = ErrInvalidInput
            /\ exec[r].ret.enrollment = NoEnrollment
            /\ exec[r].calls = <<>>
            /\ exec[r].enrollment.ID \notin DOMAIN store
            /\ \A pid \in DOMAIN payments : payments[pid].run # r

\* Execute has returned for a request with an empty UserID, for one with an
\* empty CourseID and for one with a negative Amount.
C11_Witness ==
    /\ \E r \in Runs :
          exec[r].pc = "done" /\ exec[r].req.UserID = ""
              /\ exec[r].req.CourseID # "" /\ exec[r].req.Amount >= 0
    /\ \E r \in Runs :
          exec[r].pc = "done" /\ exec[r].req.CourseID = ""
              /\ exec[r].req.UserID # "" /\ exec[r].req.Amount >= 0
    /\ \E r \in Runs :
          exec[r].pc = "done" /\ exec[r].req.Amount < 0
              /\ exec[r].req.UserID # "" /\ exec[r].req.CourseID # ""

----------------------------------------------------------------------------
(* C12 *)

\* C12: after a failed charge Execute makes one more call and no other: the
\* Update that writes CANCELLED with an empty PaymentID.  It makes no refund
\* call and no publish call, and the payment service holds no payment of
\* that run.
C12_FailedChargeOnlyCancels ==
    \A r \in Runs :
        LET x == exec[r] IN
        PaymentFailed(x) =>
            /\ x.calls[2].op = "ProcessPayment"
            /\ \/ x.pc = "cancelled" /\ Len(x.calls) = 2
               \/ /\ x.pc = "done"
                  /\ Len(x.calls) = 3
                  /\ x.calls[3].op = "Update"
                  /\ x.calls[3].arg.Status = StatusCancelled
                  /\ x.calls[3].arg.PaymentID = ""
            /\ CallsOf(x.calls, "RefundPayment") = <<>>
            /\ CallsOf(x.calls, "PublishMessage") = <<>>
            /\ \A pid \in DOMAIN payments : payments[pid].run # r

\* Execute has returned after a failed charge and a failed Update of CANCELLED.
C12_Witness ==
    \E r \in Runs :
        /\ exec[r].pc = "done"
        /\ PaymentFailed(exec[r])
        /\ Len(exec[r].calls) = 3
        /\ exec[r].calls[3].ans # Nil

----------------------------------------------------------------------------
(* C13 *)

\* The last call of run x is a publish that failed.
PublishFailed(x) ==
    /\ Len(x.calls) > 0
    /\ x.calls[Len(x.calls)].op = "PublishMessage"
    /\ x.calls[Len(x.calls)].ans # Nil

\* C13: when the activation write has succeeded and the publish fails,
\* Execute returns the ACTIVE enrollment without error, has made no refund
\* call, and the persisted status is ACTIVE with the payment id of the charge.
C13_PublishFailureIgnored ==
    [][\A r \in Runs :
          (Returns(r) /\ PublishFailed(exec'[r])) =>
              LET x == exec'[r] IN
              /\ ~ActivationFailed(x)
              /\ x.ret.err = Nil
              /\ x.ret.enrollment.Status = StatusActive
              /\ x.ret.enrollment.PaymentID = x.paymentID
              /\ CallsOf(x.calls, "RefundPayment") = <<>>
              /\ payments'[x.paymentID].refunded = 0
              /\ store' = store
              /\ Persisted(x, store').Status = StatusActive
              /\ Persisted(x, store').PaymentID = x.paymentID]_vars

\* Execute has returned an ACTIVE enrollment after a failed publish.
C13_Witness ==
    \E r \in Runs :
        /\ exec[r].pc = "done"
        /\ PublishFailed(exec[r])
        /\ exec[r].ret.err = Nil

----------------------------------------------------------------------------
(* C14 *)

\* The refund client reported failure to run x.
RefundFailed(x) ==
    \E i \in 1..Len(x.calls) :
        x.calls[i].op = "RefundPayment" /\ x.calls[i].ans # PaymentStatus_COMPLETED

\* The messages of the errors refundPayment returns.
RefundErrors == {"payment service error", "refund processing failed with status"}

\* C14 as stated: when the activation write fails and the compensating refund
\* fails too, the error Execute returns reports the refund failure beside the
\* activation failure.
C14_AsStated ==
    \A r \in Runs :
        (exec[r].pc = "done" /\ ActivationFailed(exec[r]) /\ RefundFailed(exec[r])) =>
            /\ Head(exec[r].ret.err) = "failed to activate enrollment"
            /\ \E i \in 1..Len(exec[r].ret.err) : exec[r].ret.err[i] \in RefundErrors

----------------------------------------------------------------------------
(* C15 *)

\* The persisted status of id has been ACTIVE: only the activation Update of
\* the Execute run of id writes ACTIVE.
WasActive(id) ==
    \E r \in Runs :
        /\ exec[r].enrollment.ID = id
        /\ \E i \in 1..Len(exec[r].calls) :
              /\ exec[r].calls[i].op = "Update"
              /\ exec[r].calls[i].arg.Status = StatusActive
              /\ exec[r].calls[i].ans = Nil

\* The compensation path of the Execute run of id persisted REFUNDED.
CompensationPersisted(id) ==
    \E r \in Runs :
        /\ exec[r].enrollment.ID = id
        /\ \E i \in 1..Len(exec[r].calls) :
              /\ exec[r].calls[i].op = "Update"
              /\ exec[r].calls[i].arg.Status = StatusRefunded
              /\ exec[r].calls[i].ans = Nil

----------------------------------------------------------------------------
(* C16 *)

\* C16 as stated: once the persisted PaymentID of an enrollment is non-empty,
\* no step of any Execute or CancelEnrollment call, in any interleaving, sets
\* it back to empty or changes it to a different value.
C16_AsStated ==
    [][\A id \in DOMAIN store :
          store[id].PaymentID # "" => store'[id].PaymentID = store[id].PaymentID]_vars

----------------------------------------------------------------------------
(* C17 *)

\* The statuses the lifecycle names terminal.
TerminalStatuses == {StatusCompleted, StatusCancelled, StatusRefunded}

\* C17 as stated: once the persisted status of an enrollment is COMPLETED,
\* CANCELLED or REFUNDED, no later step of any Execute or CancelEnrollment
\* call, in any interleaving, changes its persisted status.
C17_AsStated ==
    [][\A id \in DOMAIN store :
          store[id].Status \in TerminalStatuses => store'[id].Status = store[id].Status]_vars

----------------------------------------------------------------------------
(* C18 *)

\* The database failed a store call of run x.
DbFailed(x) ==
    \E i \in 1..Len(x.calls) :
        /\ x.calls[i].op \in {"Create", "GetByID", "Update"}
        /\ x.calls[i].ans # Nil
        /\ x.calls[i].ans[Len(x.calls[i].ans)] = "db"

\* The payment client succeeded every time run x called it.
PaymentClientSucceeds(x) ==
    \A i \in 1..Len(x.calls) :
        x.calls[i].op \in {"ProcessPayment", "RefundPayment"} =>
            x.calls[i].ans = PaymentStatus_COMPLETED

\* Runs r and q are two finished Execute calls of valid requests with the same
\* (UserID, CourseID), served by a working database and a payment client that
\* succeeds.
SamePairTwice(r, q) ==
    /\ r # q
    /\ exec[r].pc = "done" /\ exec[q].pc = "done"
    /\ ~InvalidRequest(exec[r].req) /\ ~InvalidRequest(exec[q].req)
    /\ exec[r].req.UserID = exec[q].req.UserID
    /\ exec[r].req.CourseID = exec[q].req.CourseID
    /\ ~DbFailed(exec[r]) /\ ~DbFailed(exec[q])
    /\ PaymentClientSucceeds(exec[r]) /\ PaymentClientSucceeds(exec[q])

\* Run r was accepted: it returned an ACTIVE enrollment and no error, its
\* record was written ACTIVE, and the payment service holds its payment.
Accepted(r) ==
    /\ exec[r].ret.err = Nil
    /\ exec[r].ret.enrollment.ID = NewUUID(r)
    /\ exec[r].ret.enrollment.Status = StatusActive
    /\ WasActive(NewUUID(r))
    /\ exec[r].ret.enrollment.PaymentID \in DOMAIN payments
    /\ payments[exec[r].ret.enrollment.PaymentID].run = r
    /\ (\A c \in Cancels : cancel[c].id # NewUUID(r)) =>
          /\ NewUUID(r) \in DOMAIN store
          /\ store[NewUUID(r)].Status \in {StatusActive, StatusCompleted}
          /\ store[NewUUID(r)].PaymentID = exec[r].ret.enrollment.PaymentID

\* C18: two Execute calls, one after the other or overlapping, with the same
\* (UserID, CourseID) and a payment client that succeeds both times produce two
\* distinct enrollment ids, two ACTIVE records and two captured payments;
\* neither call is rejected or deduplicated.
C18_DuplicateEnrollmentsAccepted ==
    \A r, q \in Runs :
        SamePairTwice(r, q) =>
            /\ Accepted(r) /\ Accepted(q)
            /\ exec[r].ret.enrollment.ID # exec[q].ret.enrollment.ID
            /\ exec[r].ret.enrollment.PaymentID # exec[q].ret.enrollment.PaymentID

\* Two overlapping Execute calls for the same pair both finished: the call
\* that started first was charged second.
C18_Witness ==
    /\ SamePairTwice(1, 2)
    /\ exec[1].ret.enrollment.PaymentID = PaymentIdOf(2)
    /\ exec[2].ret.enrollment.PaymentID = PaymentIdOf(1)
    /\ store[NewUUID(1)].Status = StatusActive
    /\ store[NewUUID(2)].Status = StatusActive

----------------------------------------------------------------------------
(* C19 *)

\* Enrollments a and b agree on the fields fixed at creation.
SameIdentity(a, b) ==
    /\ a.ID = b.ID
    /\ a.UserID = b.UserID
    /\ a.CourseID = b.CourseID
    /\ a.EnrolledAt = b.EnrolledAt
    /\ a.AmountPaid = b.AmountPaid

\* C19: whatever Updates Execute and CancelEnrollment issue, in any
\* interleaving, every persisted enrollment keeps the id, UserID, CourseID,
\* EnrolledAt and AmountPaid that Create wrote, and every Update is issued
\* with these values.
C19_IdentityFieldsKeptByUpdates ==
    \A r \in Runs :
        \A i \in 1..Len(exec[r].calls) :
            (exec[r].calls[i].op = "Create" /\ exec[r].calls[i].ans = Nil) =>
                LET e == exec[r].calls[i].arg
                IN  /\ e.ID \in DOMAIN store
                    /\ SameIdentity(store[e.ID], e)
                    /\ \A j \in 1..Len(exec[r].calls) :
                          exec[r].calls[j].op = "Update" =>
                              SameIdentity(exec[r].calls[j].arg, e)
                    /\ \A c \in Cancels :
                          \A j \in 1..Len(cancel[c].calls) :
                              (cancel[c].id = e.ID /\ cancel[c].calls[j].op = "Update") =>
                                  SameIdentity(cancel[c].calls[j].arg, e)

\* A record that both its Execute run and a CancelEnrollment call have
\* updated with success.
C19_Witness ==
    \E r \in Runs, c \in Cancels :
        /\ Created(exec[r])
        /\ cancel[c].id = NewUUID(r)
        /\ \E i \in 1..Len(exec[r].calls) :
              exec[r].calls[i].op = "Update" /\ exec[r].calls[i].ans = Nil
        /\ \E j \in 1..Len(cancel[c].calls) :
              cancel[c].calls[j].op = "Update" /\ cancel[c].calls[j].ans = Nil

----------------------------------------------------------------------------
(* C20 *)

\* How many times a call log invoked op.
Invocations(calls, op) == Len(CallsOf(calls, op))

\* C20: no step is retried. One Execute run invokes the store Create, the
\* payment charge and the refund at most once each, and one CancelEnrollment
\* run invokes the refund and the store Update at most once each, whatever
\* the calls return.
C20_NoStepRetried ==
    /\ \A r \in Runs :
          /\ Invocations(exec[r].calls, "Create") <= 1
          /\ Invocations(exec[r].calls, "ProcessPayment") <= 1
          /\ Invocations(exec[r].calls, "RefundPayment") <= 1
    /\ \A c \in Cancels :
          /\ Invocations(cancel[c].calls, "RefundPayment") <= 1
          /\ Invocations(cancel[c].calls, "Update") <= 1

\* A finished Execute run whose charge failed, and a finished CancelEnrollment
\* call whose refund failed.
C20_Witness ==
    /\ \E r \in Runs :
          /\ exec[r].pc = "done"
          /\ PaymentFailed(exec[r])
          /\ Invocations(exec[r].calls, "ProcessPayment") = 1
    /\ \E c \in Cancels :
          /\ cancel[c].pc = "done"
          /\ RefundFailed(cancel[c])
          /\ Invocations(cancel[c].calls, "RefundPayment") = 1

----------------------------------------------------------------------------
(* C21 *)

\* The ctx of run x was cancelled after the charge was captured and before the
\* activation Update.
CancelledBeforeActivation(x) == PaymentCompleted(x) /\ x.cancelledAt = "activate"

\* C21: when the ctx of Execute is cancelled after the payment is captured and
\* before the activation write, so that the activation Update fails, Execute
\* still invokes the refund client once, with the captured payment id, after
\* the failed Update and before it returns the activation error.
C21_CancelledContextStillRefunds ==
    \A r \in Runs :
        (exec[r].pc = "done" /\ CancelledBeforeActivation(exec[r])) =>
            LET calls == exec[r].calls
            IN  /\ ActivationFailed(exec[r])
                /\ Invocations(calls, "RefundPayment") = 1
                /\ \E i, j \in 1..Len(calls) :
                      /\ i < j
                      /\ calls[i].op = "Update"
                      /\ calls[i].arg.Status = StatusActive
                      /\ calls[i].ans # Nil
                      /\ calls[j].op = "RefundPayment"
                      /\ calls[j].arg = exec[r].paymentID
                      /\ exec[r].paymentID \in DOMAIN payments
                      /\ payments[exec[r].paymentID].run = r
                      /\ exec[r].ret.err = Wrap("failed to activate enrollment", calls[i].ans)
                /\ exec[r].ret.enrollment = NoEnrollment

\* A run whose ctx was cancelled between the charge and the activation write
\* has returned.
C21_Witness ==
    \E r \in Runs :
        /\ exec[r].pc = "done"
        /\ CancelledBeforeActivation(exec[r])
        /\ Invocations(exec[r].calls, "RefundPayment") = 1

----------------------------------------------------------------------------
(* C22 *)

\* C22: Validate returns the validation failure exactly when UserID is empty,
\* CourseID is empty, AmountPaid is negative or ProgressPercentage is outside
\* 0..100, and nil otherwise; the enrollment it was called on is unchanged.
C22_ValidateExactlyTheInvariants ==
    validation.pc = "returned" =>
        LET e == validation.e
            invalid == \/ e.UserID = ""
                       \/ e.CourseID = ""
                       \/ e.AmountPaid < 0
                       \/ e.ProgressPercentage \notin 0..100
        IN  /\ invalid => validation.err = ErrInvalidInput
            /\ ~invalid => validation.err = Nil
            /\ validation.receiver = e

\* Validate accepted an enrollment at the upper end of the progress range.
C22_Witness ==
    /\ validation.pc = "returned"
    /\ validation.e.ProgressPercentage = 100
    /\ validation.e.AmountPaid = 0
    /\ validation.err = Nil

----------------------------------------------------------------------------
(* C23 *)

\* The refund client answered a refund of pid with success.
RefundSucceeded(pid) ==
    \/ \E r \in Runs : \E i \in 1..Len(exec[r].calls) :
          /\ exec[r].calls[i].op = "RefundPayment"
          /\ exec[r].calls[i].arg = pid
          /\ exec[r].calls[i].ans = PaymentStatus_COMPLETED
    \/ \E c \in Cancels : \E i \in 1..Len(cancel[c].calls) :
          /\ cancel[c].calls[i].op = "RefundPayment"
          /\ cancel[c].calls[i].arg = pid
          /\ cancel[c].calls[i].ans = PaymentStatus_COMPLETED

\* C23 as stated: a persisted status is REFUNDED only if a refund call for the
\* PaymentID of that enrollment has returned success.
C23_AsStated ==
    \A id \in DOMAIN store :
        store[id].Status = StatusRefunded => RefundSucceeded(store[id].PaymentID)

----------------------------------------------------------------------------
(* C24 *)

\* C24 as stated: over any sequence of Execute and CancelEnrollment calls the
\* refund client is invoked with success at most once for a captured payment.
C24_AsStated ==
    \A pid \in DOMAIN payments : payments[pid].refunded <= 1

----------------------------------------------------------------------------
(* C25 *)

\* CancelEnrollment call c loaded the record of run r while it was PENDING.
LoadedPending(c, r) ==
    /\ cancel[c].pc # "idle"
    /\ cancel[c].id = NewUUID(r)
    /\ cancel[c].err = Nil
    /\ cancel[c].enrollment.ID = NewUUID(r)
    /\ cancel[c].enrollment.PaymentID = ""

\* Execute run r returned success for a captured payment that was not
\* refunded, and the persisted record is CANCELLED with an empty PaymentID.
PaidButCancelled(r) ==
    /\ exec[r].pc = "done"
    /\ exec[r].ret.err = Nil
    /\ exec[r].paymentID \in DOMAIN payments
    /\ payments[exec[r].paymentID].refunded = 0
    /\ NewUUID(r) \in DOMAIN store
    /\ store[NewUUID(r)].Status = StatusCancelled
    /\ store[NewUUID(r)].PaymentID = ""

\* C25 as stated: when CancelEnrollment loads a record still PENDING and
\* interleaves with the Execute run that created it, no interleaving ends with
\* Execute having returned success for a captured, unrefunded payment while
\* the persisted record is CANCELLED with an empty PaymentID.
C25_AsStated ==
    \A r \in Runs, c \in Cancels :
        (LoadedPending(c, r) /\ cancel[c].pc = "done") => ~PaidButCancelled(r)

----------------------------------------------------------------------------
(* C26 *)

\* Message m is committed: the committed offset of the partition covers it.
IsCommitted(m) == m <= consumer.committed

\* C26 as stated: a message is committed only after the handler returned nil
\* for it; a message whose handler returned an error is never committed,
\* neither by its own commit nor by the commit of a later message of the
\* partition.
C26_AsStated ==
    consumer.pc # "none" =>
        \A m \in Offsets : IsCommitted(m) => consumer.results[m] = "ok"

----------------------------------------------------------------------------
(* C27 *)

\* C27: Start returns only after its ctx is cancelled; once the ctx is
\* cancelled Start eventually returns, and it has then closed the reader
\* exactly once, even when FetchMessage keeps returning errors.
C27_StartReturnsOnCancel ==
    /\ [](consumer.pc # "none" =>
            /\ consumer.pc = "returned" => consumer.ctxDone /\ consumer.closes = 1
            /\ consumer.pc # "returned" => consumer.closes = 0)
    /\ ((consumer.pc # "none" /\ consumer.ctxDone) ~> (consumer.pc = "returned"))

\* Start returned after a fetch had failed on the cancelled ctx, with a
\* message handled and committed before.
C27_Witness ==
    /\ consumer.pc = "returned"
    /\ consumer.closes = 1
    /\ consumer.committed >= 1
    /\ consumer.next <= MaxMessages

----------------------------------------------------------------------------
(* C28 *)

\* The operations of the course service that check the caller against the
\* course's InstructorID.
GuardedOps ==
    {"PublishCourse", "UpdateCourse", "DeleteCourse", "AddModule", "UpdateModule",
     "DeleteModule", "AddLesson", "UpdateLesson", "DeleteLesson"}

\* The call that returns in this step is one of them, on a course that
\* exists, by a caller who is not its instructor, with the database answering.
ReturnsToStranger ==
    /\ lastOp' # lastOp
    /\ lastOp'.op \in GuardedOps
    /\ lastOp'.courseID \in DOMAIN courses
    /\ courses[lastOp'.courseID].InstructorID # lastOp'.instructorID
    /\ lastOp'.dbOk

\* C28: a guarded operation called with an instructorID different from the
\* course's InstructorID returns ErrUnauthorized and leaves the course, module
\* and lesson stores unchanged.
C28_AsStated ==
    [][ReturnsToStranger =>
           /\ lastOp'.ret = ErrUnauthorized
           /\ UNCHANGED <<courses, modules, lessons>>]_vars

----------------------------------------------------------------------------
(* C29 *)

\* The OrderIndex values of the modules of a course.
OrderIndexes(ms, courseID) ==
    {ms[m].OrderIndex : m \in {k \in DOMAIN ms : ms[k].CourseID = courseID}}

DistinctOrderIndexes(ms) ==
    \A m1, m2 \in DOMAIN ms :
        (m1 # m2 /\ ms[m1].CourseID = ms[m2].CourseID) => ms[m1].OrderIndex # ms[m2].OrderIndex

\* The call that returns in this step is an AddModule with a title, by the
\* instructor of a course that exists, with the database answering.
AddModuleByInstructor ==
    /\ lastOp' # lastOp
    /\ lastOp'.op = "AddModule"
    /\ lastOp'.courseID \in DOMAIN courses
    /\ courses[lastOp'.courseID].InstructorID = lastOp'.instructorID
    /\ lastOp'.title # ""
    /\ lastOp'.dbOk

----------------------------------------------------------------------------
(* C30 *)

\* The users table holds at most one row per email.
OneUserPerEmail ==
    \A u1, u2 \in users.rows : u1.Email = u2.Email => u1 = u2

\* A Register call that returned without a record of its own because its
\* email had a user: at GetByEmail, or at the INSERT.
RefusedForEmail(g) ==
    /\ reg[g].pc = "done"
    /\ \/ reg[g].ret = ErrEmailAlreadyExists
       \/ reg[g].ret = Wrap("failed to create user", Wrap("failed to create user", DuplicateKey))

\* C30: the user store holds at most one user per email, and a Register for
\* an email that already has a user returns ErrEmailAlreadyExists.
C30_AsStated ==
    /\ OneUserPerEmail
    /\ \A g \in DOMAIN reg : RefusedForEmail(g) => reg[g].ret = ErrEmailAlreadyExists

====
